---------------------------- MODULE Spec2Model ----------------------------
(* Model of cozy_gym_bot (src/app/main.py, storage.py, telegram.py,         *)
(* google_calendar.py): the Telegram webhook command handler, the Google    *)
(* OAuth flow, the calendar sync routine and the scheduler loop, over the   *)
(* database tables of storage.py.                                           *)
(*                                                                          *)
(* Time is counted in minutes.  Request handlers run to completion (one     *)
(* action each); the scheduler tick is a process with one step per trainer  *)
(* of its loop, and no other handler runs between the steps of a tick.      *)
(* Telegram's bot token is configured, so send_telegram_message posts.      *)
EXTENDS Integers, Sequences, FiniteSets, TLC

(***************************************************************************)
(* Bounds of the model.                                                    *)
(***************************************************************************)
\* The clock starts at T0 minutes after the Unix epoch and runs to T0 + MaxTime.
T0 == 30000000
MaxTime == 1
\* The longest list of events one calendar fetch returns.
MaxEvents == 2
\* The most clients a world registers.
MaxClients == 2
\* How many OAuth flows are started (each draws a fresh uuid4 state).
MaxOAuthStates == 2
\* The per-event count of reminders saturates here.
MaxSends == 2

(***************************************************************************)
(* Program constants.                                                      *)
(***************************************************************************)
Epoch == 0
RefreshMarginMinutes == 1
NotifyWindowMinutes == 1440
\* The largest value of an Integer column (a signed 32-bit integer).
IntegerMax == 2147483647
DefaultSyncInterval == 60
SchedulerSleepMinutes == 1

\* NULL / None in an integer column or variable.
NoTime == -1
NoId == 0
\* An event whose start or end has no "dateTime" (or an empty one), and one
\* whose "dateTime" datetime.fromisoformat rejects.
NoDT == -1
BadDT == -2
\* An event without a "summary" key, and the default event.get puts in (in
\* the source the Russian word for it).
NoSummary == "<absent>"
DefaultSummary == "training"
NoToken == "<none>"
ConfiguredSecret == "s3"

(***************************************************************************)
(* Text: str.lower, str.split, " ".join, int() and str() on the strings    *)
(* the model uses.                                                         *)
(***************************************************************************)
Max(a, b) == IF a >= b THEN a ELSE b

Range(f) == {f[i] : i \in DOMAIN f}

Char(s, i) == SubSeq(s, i, i)

LowerChar(c) ==
    CASE c = "A" -> "a" [] c = "B" -> "b" [] c = "C" -> "c" [] c = "D" -> "d"
      [] c = "E" -> "e" [] c = "F" -> "f" [] c = "G" -> "g" [] c = "I" -> "i"
      [] c = "L" -> "l" [] c = "N" -> "n" [] c = "O" -> "o" [] c = "P" -> "p"
      [] c = "R" -> "r" [] c = "S" -> "s" [] c = "T" -> "t" [] c = "Y" -> "y"
      [] OTHER -> c

\* str.lower()
RECURSIVE StrLower(_)
StrLower(s) == IF Len(s) = 0 THEN "" ELSE LowerChar(Char(s, 1)) \o StrLower(Tail(s))

\* `sub in s` of Python: sub occurs in s as a contiguous substring.
Contains(sub, s) ==
    \E i \in 1..(Len(s) - Len(sub) + 1) : SubSeq(s, i, i + Len(sub) - 1) = sub

IsSpace(c) == c = " "

\* str.split(): the maximal runs of non-whitespace characters, in order.
RECURSIVE SplitFrom(_, _, _)
SplitFrom(s, cur, acc) ==
    IF Len(s) = 0
    THEN IF cur = "" THEN acc ELSE Append(acc, cur)
    ELSE IF IsSpace(Char(s, 1))
         THEN SplitFrom(Tail(s), "", IF cur = "" THEN acc ELSE Append(acc, cur))
         ELSE SplitFrom(Tail(s), cur \o Char(s, 1), acc)

Split(s) == SplitFrom(s, "", <<>>)

\* " ".join(parts)
RECURSIVE Join(_)
Join(parts) ==
    IF Len(parts) = 0 THEN ""
    ELSE IF Len(parts) = 1 THEN parts[1]
    ELSE parts[1] \o " " \o Join(Tail(parts))

DigitVal(c) ==
    CASE c = "0" -> 0 [] c = "1" -> 1 [] c = "2" -> 2 [] c = "3" -> 3
      [] c = "4" -> 4 [] c = "5" -> 5 [] c = "6" -> 6 [] c = "7" -> 7
      [] c = "8" -> 8 [] c = "9" -> 9 [] OTHER -> -1

RECURSIVE AllDigits(_)
AllDigits(s) == Len(s) = 0 \/ (DigitVal(Char(s, 1)) >= 0 /\ AllDigits(Tail(s)))

RECURSIVE DigitsVal(_, _)
DigitsVal(s, acc) ==
    IF Len(s) = 0 THEN acc ELSE DigitsVal(Tail(s), 10 * acc + DigitVal(Char(s, 1)))

HasSign(s) == Len(s) > 0 /\ Char(s, 1) \in {"-", "+"}

\* int(s) on a whitespace-free word accepts an optional sign followed by one
\* or more decimal digits, and raises ValueError otherwise.
IsInt(s) ==
    LET digits == IF HasSign(s) THEN Tail(s) ELSE s
    IN  Len(digits) > 0 /\ AllDigits(digits)

IntVal(s) ==
    IF HasSign(s)
    THEN IF Char(s, 1) = "-" THEN 0 - DigitsVal(Tail(s), 0) ELSE DigitsVal(Tail(s), 0)
    ELSE DigitsVal(s, 0)

\* Whether the value of a string of digits is at most IntegerMax, found
\* without computing a larger number.
RECURSIVE DigitsFit(_, _)
DigitsFit(s, acc) ==
    \/ Len(s) = 0
    \/ /\ acc <= (IntegerMax - DigitVal(Char(s, 1))) \div 10
       /\ DigitsFit(Tail(s), 10 * acc + DigitVal(Char(s, 1)))

\* int(s) is greater than IntegerMax, for s that int() accepts.  Python's
\* int has no width.
ExceedsInteger(s) ==
    IF HasSign(s) THEN Char(s, 1) = "+" /\ ~DigitsFit(Tail(s), 0)
    ELSE ~DigitsFit(s, 0)

DigitChar(d) == Char("0123456789", d + 1)

RECURSIVE NatToStr(_)
NatToStr(n) == IF n < 10 THEN DigitChar(n) ELSE NatToStr(n \div 10) \o DigitChar(n % 10)

\* str(n)
IntToStr(n) == IF n < 0 THEN "-" \o NatToStr(0 - n) ELSE NatToStr(n)

(***************************************************************************)
(* The outside world: the chats that talk to the bot, the texts they send, *)
(* the events Google Calendar holds and the environment the process is     *)
(* started in.  A behaviour stays in the world it starts in.               *)
(***************************************************************************)
Ev(id, summary, start, end) ==
    [id |-> id, summary |-> summary, start |-> start, end |-> end]

\* Instants of the events' start: one at the first clock value and one
\* NotifyWindowMinutes after the second.
StartSoon == T0
StartLate == T0 + 1 + NotifyWindowMinutes

EvTraining == Ev("e1", "BO gym", StartSoon, StartSoon + 60)
EvMoved == Ev("e1", "BO gym", StartLate, StartLate + 60)
EvRenamed == Ev("e1", NoSummary, StartLate, StartLate + 60)
EvSecond == Ev("e2", "BO gym", StartSoon, StartSoon + 60)
EvMalformed == Ev("e2", "BO gym", BadDT, StartSoon + 60)
EvNoStart == Ev("e2", "BO gym", NoDT, StartSoon + 60)
EvNoEnd == Ev("e2", "BO gym", StartSoon, NoDT)
EvUntimed == Ev("e1", "BO gym", NoDT, NoDT)

\* The lists of at most MaxEvents events over a set of events.
RECURSIVE ListsUpTo(_, _)
ListsUpTo(events, n) ==
    IF n = 0 THEN {<<>>}
    ELSE LET shorter == ListsUpTo(events, n - 1)
         IN  shorter \cup {Append(l, e) : l \in shorter, e \in events}

NoText == "<no text>"

SetupTexts == {"/trainer", "/client 1 Bo", "/sync"}

CommandTexts ==
    {"/trainer", "/client 1 Bo", "/sessions", "/sync", "/SYNC", "/sync off",
     "/sync Stop", "/sync DISABLE", "/sync -1", "/sync 0", "/sync 2",
     "/sync 2147483648",
     "/sync soon", "/sync 2 3", "/start", "  ", "/client 1", "/client x Bo",
     "/client 7 Bo", NoText}

\* `/sync <n>` with n one more than the minutes from the epoch to T0.
SyncFarInterval == "/sync " \o IntToStr(T0 + 1)

FullConfig ==
    [database_url |-> TRUE, auto_migrate |-> TRUE,
     telegram_webhook_secret |-> ConfiguredSecret]

\* AUTO_MIGRATE unset: on_startup returns before it creates the scheduler.
RequestsOnly == [FullConfig EXCEPT !.auto_migrate = FALSE]

Configs ==
    [database_url : BOOLEAN, auto_migrate : BOOLEAN,
     telegram_webhook_secret : {ConfiguredSecret, ""}]

AccessTokens == {"ya29.a", "ya29.b"}

\* "expires_in" of Google's token response, in minutes.
ExpiresIn == {RefreshMarginMinutes, RefreshMarginMinutes + 1}

\* Google's answers to a code exchange: an access token that stays fresh
\* for a minute, and any access token with either lifetime.
FreshCode == {[fail |-> FALSE, access_token |-> "ya29.a",
               expires_in |-> RefreshMarginMinutes + 1]}

AnyCode ==
    {[fail |-> FALSE, access_token |-> a, expires_in |-> e] :
        a \in AccessTokens, e \in ExpiresIn}
    \cup {[fail |-> TRUE, access_token |-> NoToken, expires_in |-> 0]}

\* The strings the program lowercases in a world: the words of the texts,
\* the client names they give and the summaries of the events.
KnownStrings(texts, events) ==
    UNION {Range(Split(text)) : text \in texts}
    \cup {Join(SubSeq(Split(text), 3, Len(Split(text)))) : text \in texts}
    \cup {e.summary : e \in events} \cup {DefaultSummary}

\* A world: the chats, the texts they send, how many clients get registered,
\* the secrets requests carry, the calendar's events, how many OAuth flows
\* are started, Google's answers to them, how many minutes pass, and the
\* environment of the process.  parts and lower hold text.strip().split() of
\* its texts and str.lower() of its strings, computed once.
World(name, chats, texts, maxClients, secrets, events, flows, codes, minutes, configs) ==
    [name |-> name, chats |-> chats, texts |-> texts, clients |-> maxClients,
     secrets |-> secrets, lists |-> ListsUpTo(events, MaxEvents), flows |-> flows,
     codes |-> codes, minutes |-> minutes, configs |-> configs,
     parts |-> [text \in texts \ {NoText} |-> Split(text)],
     lower |-> [s \in KnownStrings(texts \ {NoText}, events) |-> StrLower(s)]]

Worlds ==
    {World("reminders", {101}, SetupTexts, 1, {ConfiguredSecret},
           {EvTraining, EvMoved, EvRenamed}, 1, AnyCode, MaxTime, {RequestsOnly}),
     World("faults", {101}, SetupTexts, 1, {ConfiguredSecret},
           {EvTraining, EvMalformed}, 1, AnyCode, MaxTime, {RequestsOnly}),
     World("skips", {101}, SetupTexts, 1, {ConfiguredSecret},
           {EvSecond, EvNoStart, EvNoEnd, EvUntimed}, 1, FreshCode, 0, {RequestsOnly}),
     World("calendar", {101}, SetupTexts, 1, {ConfiguredSecret},
           {EvTraining, EvSecond}, 1, FreshCode, 0, {RequestsOnly}),
     World("names", {101}, {"/trainer", "/client 1 Bo", "/client 1 bo", "/client 1 o"},
           MaxClients, {ConfiguredSecret},
           {EvTraining, EvRenamed}, 1, FreshCode, 0, {RequestsOnly}),
     World("pair", {101, 102}, {"/trainer", "/client 2 Bo"}, 1, {ConfiguredSecret},
           {EvTraining, EvRenamed}, MaxOAuthStates, FreshCode, 0, {RequestsOnly}),
     World("reconnect", {101}, {"/trainer", "/sync"}, 0, {ConfiguredSecret},
           {}, MaxOAuthStates, AnyCode, MaxTime, {RequestsOnly}),
     World("ticks", {101, 102}, {"/trainer", "/sync 1"}, 0, {ConfiguredSecret},
           {EvTraining, EvMalformed}, MaxOAuthStates, FreshCode, 0, {FullConfig}),
     World("intervals", {101}, {"/trainer", SyncFarInterval}, 0, {ConfiguredSecret},
           {}, 1, FreshCode, MaxTime, {FullConfig}),
     World("scheduler", {101},
           {"/trainer", "/client 1 Bo", "/sync 1", "/sync 2", "/sync off"},
           1, {ConfiguredSecret}, {EvTraining}, 1, FreshCode, MaxTime, {FullConfig}),
     World("commands", {101, 102}, CommandTexts, 1, {ConfiguredSecret, "guess"},
           {}, 0, FreshCode, 0, {RequestsOnly}),
     World("deployments", {101}, {"/trainer", "/sync 1", "/sync"}, 1,
           {ConfiguredSecret, "guess"}, {}, 1, FreshCode, 0, Configs)}

(***************************************************************************)
(* State.                                                                  *)
(***************************************************************************)
VARIABLES
    world,         \* the world the behaviour is in: a member of Worlds
    config,        \* Settings(): database_url set, auto_migrate, webhook secret
    started,       \* on_startup has run; the application serves requests
    now,           \* the clock, in minutes since the epoch
    trainers,      \* table trainers: row i has id i
    clients,       \* table clients: row i has id i
    sessions,      \* table training_sessions, committed rows
    tokens,        \* table oauth_tokens, committed rows in id order
    oauth_states,  \* table oauth_states: a set of [trainer_id, state]
    uuids,         \* how many uuid4 states google_oauth_start has drawn
    sched,         \* the run_sync_scheduler task
    sent,          \* per calendar event id, the reminders posted to Telegram
    runs,          \* sync runs in progress whose steps interleave (Concurrent)
    last           \* the latest operation: what it was given and what it did

vars == <<world, config, started, now, trainers, clients, sessions, tokens,
          oauth_states, uuids, sched, sent, runs, last>>

db == <<trainers, clients, sessions, tokens, oauth_states, uuids>>

W == world

\* text.strip().split()
Parts(text) == W.parts[text]

\* str.lower()
Lower(s) == IF s \in DOMAIN W.lower THEN W.lower[s] ELSE StrLower(s)

EventIds == {"e1", "e2"}

(***************************************************************************)
(* Rows.                                                                   *)
(***************************************************************************)
\* Trainer(name=..., telegram_chat_id=str(chat_id)) with the column defaults.
NewTrainer(chat_id) ==
    [telegram_chat_id |-> chat_id,
     sync_enabled |-> FALSE,
     sync_interval_minutes |-> DefaultSyncInterval,
     last_synced_at |-> NoTime]

NewClient(trainer_id, name, chat_id) ==
    [trainer_id |-> trainer_id, name |-> name, telegram_chat_id |-> chat_id]

\* select(Trainer).where(Trainer.telegram_chat_id == str(chat_id)): the id of
\* the trainer registered from the chat (the column is unique), NoId if none.
TrainerOfChat(chat_id) ==
    IF \E i \in DOMAIN trainers : trainers[i].telegram_chat_id = chat_id
    THEN CHOOSE i \in DOMAIN trainers : trainers[i].telegram_chat_id = chat_id
    ELSE NoId

\* select(OAuthToken).where(OAuthToken.trainer_id == trainer_id): the rows of
\* the trainer.  The statement has no ORDER BY, so session.scalar, which
\* takes the first row of the result, may return any of them; {NoId} stands
\* for the empty result.
TokensOf(toks, trainer_id) == {i \in DOMAIN toks : toks[i].trainer_id = trainer_id}

TokenRows(toks, trainer_id) ==
    IF TokensOf(toks, trainer_id) = {} THEN {NoId} ELSE TokensOf(toks, trainer_id)

\* select(Client).where(Client.trainer_id == trainer_id): the trainer's
\* clients as [id, name], in table order.
RECURSIVE ClientsFrom(_, _)
ClientsFrom(i, trainer_id) ==
    IF i > Len(clients) THEN <<>>
    ELSE IF clients[i].trainer_id = trainer_id
         THEN <<[id |-> i, name |-> clients[i].name]>> \o ClientsFrom(i + 1, trainer_id)
         ELSE ClientsFrom(i + 1, trainer_id)

ClientsOf(trainer_id) == ClientsFrom(1, trainer_id)

(***************************************************************************)
(* Client matching of sync_calendar_for_trainer.                           *)
(***************************************************************************)
\* A dict that would keep the value a key was first given.
DictPutOnce(d, key, id) ==
    IF \E i \in DOMAIN d : d[i].name = key THEN d
    ELSE Append(d, [name |-> key, id |-> id])

\* d[key] = id on a dict kept as a sequence of [name, id] in insertion order:
\* an existing key keeps its place and takes the new value.
DictPut(d, key, id) ==
    IF \E i \in DOMAIN d : d[i].name = key
    THEN [i \in DOMAIN d |-> IF d[i].name = key THEN [name |-> key, id |-> id] ELSE d[i]]
    ELSE Append(d, [name |-> key, id |-> id])

\* client_map = {client.name.lower(): client for client in clients}
RECURSIVE ClientMapFrom(_, _)
ClientMapFrom(cl, d) ==
    IF Len(cl) = 0 THEN d
    ELSE ClientMapFrom(Tail(cl), DictPut(d, Lower(cl[1].name), cl[1].id))

ClientMap(cl) == ClientMapFrom(cl, <<>>)

NameMatches(name, summary) == name # "" /\ Contains(name, Lower(summary))

\* for name, client in client_map.items(): first match wins.  NoId: no match.
MatchedClient(client_map, summary) ==
    LET hits == {i \in DOMAIN client_map : NameMatches(client_map[i].name, summary)}
    IN  IF hits = {} THEN NoId
        ELSE client_map[CHOOSE i \in hits : \A j \in hits : i <= j].id

(***************************************************************************)
(* sync_calendar_for_trainer.                                              *)
(***************************************************************************)
EventSummary(ev) == IF ev.summary = NoSummary THEN DefaultSummary ELSE ev.summary

\* The window without its end: start_dt <= notify_before left out.
NotStartedYet(start, t) == t <= start

\* now <= start_dt <= notify_before
InNotifyWindow(start, t) == t <= start /\ start <= t + NotifyWindowMinutes

\* The comparison of line 53 made strict.
ExpiresBefore(expires_at, t) == expires_at < t + RefreshMarginMinutes

\* token.expires_at <= now + timedelta(minutes=1)
NeedsRefresh(expires_at, t) == expires_at <= t + RefreshMarginMinutes

\* select(TrainingSession).where(calendar_event_id == event["id"]) on the
\* rows the database session sees: the row's index, NoId if absent.
FindSession(work, event_id) ==
    IF \E i \in DOMAIN work : work[i].calendar_event_id = event_id
    THEN CHOOSE i \in DOMAIN work : work[i].calendar_event_id = event_id
    ELSE NoId

NewSession(trainer_id, matched, ev) ==
    [trainer_id |-> trainer_id,
     client_id |-> matched,
     calendar_event_id |-> ev.id,
     summary |-> EventSummary(ev),
     start_time |-> ev.start,
     end_time |-> ev.end,
     notified_at |-> NoTime]

\* The update as it would be without the `if matched_client:` guard of
\* line 103: the client is overwritten even when no client matched.
OverwriteSession(row, matched, ev) ==
    [row EXCEPT !.summary = EventSummary(ev),
                !.start_time = ev.start,
                !.end_time = ev.end,
                !.client_id = matched]

UpdateSession(row, matched, ev) ==
    [row EXCEPT !.summary = EventSummary(ev),
                !.start_time = ev.start,
                !.end_time = ev.end,
                !.client_id = IF matched # NoId THEN matched ELSE @]

\* The upsert as it would be without the lookup of lines 86-90: every event
\* is inserted.
InsertSession(work, trainer_id, matched, ev) ==
    Append(work, NewSession(trainer_id, matched, ev))

\* Lines 86-104: the rows after the upsert of one event.
Upsert(work, trainer_id, matched, ev) ==
    LET i == FindSession(work, ev.id)
    IN  IF i = NoId
        THEN Append(work, NewSession(trainer_id, matched, ev))
        ELSE [work EXCEPT ![i] = UpdateSession(@, matched, ev)]

\* Lines 106-110: whether a reminder is due for the upserted row.
ShouldNotify(row, matched, ev, t) ==
    /\ matched # NoId
    /\ row.notified_at = NoTime
    /\ InNotifyWindow(ev.start, t)

\* A test that would skip only an event that lacks both.
LacksBoth(ev) == ev.start = NoDT /\ ev.end = NoDT

\* Line 75: if not start or not end.
LacksTime(ev) == ev.start = NoDT \/ ev.end = NoDT

\* One pass of the loop body (lines 72-116).  st carries the rows the
\* database session holds, the reminders posted so far, how many posts were
\* tried, and whether an exception has ended the run.  failAt = k makes the
\* k-th post to Telegram raise (0: none does).
ProcessEvent(st, ev, trainer_id, client_map, t, failAt) ==
    IF st.raised THEN st
    ELSE IF LacksTime(ev) THEN st
    ELSE IF ev.start = BadDT \/ ev.end = BadDT THEN [st EXCEPT !.raised = TRUE]
    ELSE LET matched == MatchedClient(client_map, EventSummary(ev))
             work1 == Upsert(st.work, trainer_id, matched, ev)
             i == FindSession(work1, ev.id)
         IN  IF ~ShouldNotify(work1[i], matched, ev, t)
             THEN [st EXCEPT !.work = work1]
             ELSE IF st.posts + 1 = failAt
                  THEN [st EXCEPT !.work = work1, !.posts = @ + 1, !.raised = TRUE]
                  ELSE [st EXCEPT !.work = [work1 EXCEPT ![i].notified_at = t],
                                  !.posts = @ + 1,
                                  !.reminders = Append(@, ev.id)]

RECURSIVE ProcessEvents(_, _, _, _, _, _)
ProcessEvents(st, evs, trainer_id, client_map, t, failAt) ==
    IF Len(evs) = 0 THEN st
    ELSE ProcessEvents(ProcessEvent(st, evs[1], trainer_id, client_map, t, failAt),
                       Tail(evs), trainer_id, client_map, t, failAt)

\* The outcome of a run that returns or raises before the loop.
RunResult(status, toks, committed, work, refreshed, fetched, reminders) ==
    [status |-> status, tokens |-> toks, sessions |-> committed, work |-> work,
     refreshed |-> refreshed, fetched |-> fetched, reminders |-> reminders]

\* Lines 65-119, with access_token the token the fetch is made with and
\* committed the rows in the database when the fetch starts.
FetchAndReconcile(trainer_id, access_token, toks, committed, work, refreshed, t, inp) ==
    IF inp.fail = "fetch"
    THEN RunResult("error", toks, committed, work, refreshed, access_token, <<>>)
    ELSE LET st == ProcessEvents([work |-> work, reminders |-> <<>>, posts |-> 0,
                                  raised |-> FALSE],
                                 inp.events, trainer_id,
                                 ClientMap(ClientsOf(trainer_id)), t, inp.failAt)
         IN  IF st.raised
             THEN RunResult("error", toks, committed, st.work, refreshed,
                            access_token, st.reminders)
             ELSE RunResult("ok", toks, st.work, st.work, refreshed,
                            access_token, st.reminders)

\* The routine as it would be without lines 48-50: the run goes on to the
\* fetch whether or not a token row was found.
SyncWithoutTokenCheck(trainer_id, work, t, inp) ==
    FetchAndReconcile(trainer_id, NoToken, tokens, sessions, work, FALSE, t, inp)

\* sync_calendar_for_trainer(trainer_id, session) at time t.  work is what
\* the database session holds (the committed rows and its own pending
\* changes).  inp gives what the outside world answers: row (the token row
\* the select of line 48 returns), events (the fetched list), fail
\* ("refresh" or "fetch": that request raises), failAt, and access_token /
\* expires_in of a refresh response.
SyncCalendarForTrainer(trainer_id, work, t, inp) ==
    LET k == inp.row
    IN  IF k = NoId
        THEN RunResult("400", tokens, sessions, work, FALSE, NoToken, <<>>)
        ELSE IF ~NeedsRefresh(tokens[k].expires_at, t)
        THEN FetchAndReconcile(trainer_id, tokens[k].access_token, tokens,
                               sessions, work, FALSE, t, inp)
        ELSE IF inp.fail = "refresh"
        THEN RunResult("error", tokens, sessions, work, TRUE, NoToken, <<>>)
        ELSE LET toks == [tokens EXCEPT ![k].access_token = inp.access_token,
                                        ![k].expires_at = t + inp.expires_in]
             IN  \* line 62 commits the token and whatever the session holds
                 FetchAndReconcile(trainer_id, toks[k].access_token, toks,
                                   work, work, TRUE, t, inp)


(***************************************************************************)
(* What Google and Telegram answer to one run of the sync routine.         *)
(***************************************************************************)
NoRefresh == [fail |-> "none", access_token |-> NoToken, expires_in |-> 0]

\* What Google answers a refresh with, when a run at t with token row k asks.
RefreshAnswers(k, t) ==
    IF k # NoId /\ NeedsRefresh(tokens[k].expires_at, t)
    THEN {[fail |-> "none", access_token |-> a,
           expires_in |-> RefreshMarginMinutes + 1] : a \in AccessTokens}
         \cup {[fail |-> "refresh", access_token |-> NoToken, expires_in |-> 0]}
    ELSE {NoRefresh}

SyncInput(k, r, events, fail, failAt) ==
    [row |-> k, events |-> events, fail |-> fail, failAt |-> failAt,
     access_token |-> r.access_token, expires_in |-> r.expires_in]

\* What the outside world may answer to a run at t that got token row k: a
\* refresh answer, then a failing fetch, or a list of events with no or one
\* failing post to Telegram (a run posts at most once per event).
InputsWithRow(k, t) ==
    UNION {IF r.fail = "refresh" \/ k = NoId
           THEN {SyncInput(k, r, <<>>, r.fail, 0)}
           ELSE {SyncInput(k, r, <<>>, "fetch", 0)}
                \cup UNION {{SyncInput(k, r, evs, "none", n) : n \in 0..Len(evs)} :
                               evs \in W.lists}
           : r \in RefreshAnswers(k, t)}

\* The inputs of one run of trainer_id at t.
SyncInputs(trainer_id, t) ==
    UNION {InputsWithRow(k, t) : k \in TokenRows(tokens, trainer_id)}

(***************************************************************************)
(* Bookkeeping of the observation variables.                               *)
(***************************************************************************)
Min(a, b) == IF a <= b THEN a ELSE b

RECURSIVE CountSent(_, _)
CountSent(cnt, reminders) ==
    IF Len(reminders) = 0 THEN cnt
    ELSE CountSent([cnt EXCEPT ![reminders[1]] = Min(@ + 1, MaxSends)], Tail(reminders))

Op(op, status, trainer_id, arg, replied) ==
    [op |-> op, status |-> status, trainer |-> trainer_id, arg |-> arg,
     row |-> NoId, stale |-> FALSE, events |-> <<>>, refreshed |-> FALSE, fetched |-> NoToken,
     reminders |-> <<>>, replied |-> replied]

\* stale: the database session held uncommitted rows when the run began.
SyncOp(op, status, trainer_id, inp, run, replied) ==
    [op |-> op, status |-> status, trainer |-> trainer_id, arg |-> 0,
     row |-> inp.row, stale |-> sched.pc = "loop" /\ sched.work # sessions,
     events |-> inp.events, refreshed |-> run.refreshed,
     fetched |-> run.fetched, reminders |-> run.reminders,
     replied |-> replied]

SchedIdle(pc, wake) ==
    [pc |-> pc, wake |-> wake, now |-> 0, queue |-> <<>>, work |-> <<>>]

\* The two callers of the sync routine whose runs may overlap: the scheduler
\* task and a request handler.
RunNames == {"scheduled", "request"}

\* A run that has not begun: no list, no rows in its database session.
IdleRun ==
    [pc |-> "idle", op |-> "none", status |-> "none", trainer |-> NoId, t |-> 0,
     evs |-> <<>>, i |-> 1, client_map |-> <<>>, entries |-> <<>>]

(***************************************************************************)
(* Construction and startup.                                               *)
(***************************************************************************)
Init ==
    /\ world \in Worlds
    /\ config \in world.configs
    /\ started = FALSE
    /\ now = T0
    /\ trainers = <<>>
    /\ clients = <<>>
    /\ sessions = <<>>
    /\ tokens = <<>>
    /\ oauth_states = {}
    /\ uuids = 0
    /\ sched = SchedIdle("off", 0)
    /\ sent = [e \in EventIds |-> 0]
    /\ runs = [r \in RunNames |-> IdleRun]
    /\ last = Op("import", "ok", NoId, 0, FALSE)

\* on_startup: the scheduler task is created only past both early returns.
on_startup ==
    /\ ~started
    /\ started' = TRUE
    /\ sched' = IF config.auto_migrate /\ config.database_url
                THEN SchedIdle("sleep", now)
                ELSE SchedIdle("off", 0)
    /\ last' = Op("startup", "ok", NoId, 0, FALSE)
    /\ UNCHANGED <<world, runs, config, now, db, sent>>

\* Time passes while no handler runs.
Advance ==
    /\ started
    /\ sched.pc # "loop"
    /\ now < T0 + W.minutes
    /\ now' = now + 1
    /\ last' = Op("advance", "ok", NoId, 0, FALSE)
    /\ UNCHANGED <<world, runs, config, started, db, sched, sent>>

\* A handler that answers without touching the database.
Respond(op, status, trainer_id, arg, replied) ==
    /\ last' = Op(op, status, trainer_id, arg, replied)
    /\ UNCHANGED <<world, runs, config, started, now, db, sched, sent>>

(***************************************************************************)
(* telegram_webhook.                                                       *)
(***************************************************************************)
HttpStatus(run) == IF run.status = "error" THEN "500" ELSE run.status

\* Line 184 without its comparison: any secret passes once one is configured.
SecretConfigured(secret) == config.telegram_webhook_secret # ""

\* Line 184.
SecretAccepted(secret) ==
    config.telegram_webhook_secret # "" /\ secret = config.telegram_webhook_secret

\* Lines 199-212.  The chat id column is unique: a second /trainer of a chat
\* fails at the commit.
CmdTrainer(chat_id) ==
    IF TrainerOfChat(chat_id) # NoId
    THEN Respond("trainer", "500", NoId, 0, FALSE)
    ELSE /\ trainers' = Append(trainers, NewTrainer(chat_id))
         /\ last' = Op("trainer", "ok", Len(trainers) + 1, 0, TRUE)
         /\ UNCHANGED <<world, runs, config, started, now, clients, sessions, tokens,
                        oauth_states, uuids, sched, sent>>

\* Lines 214-225.  int(parts[1]) may raise; the trainer id is a foreign key.
CmdClient(chat_id, parts) ==
    IF ~IsInt(parts[2]) \/ IntVal(parts[2]) \notin DOMAIN trainers
    THEN Respond("client", "500", NoId, 0, FALSE)
    ELSE /\ Len(clients) < W.clients
         /\ clients' = Append(clients, NewClient(IntVal(parts[2]),
                                                 Join(SubSeq(parts, 3, Len(parts))),
                                                 chat_id))
         /\ last' = Op("client", "ok", IntVal(parts[2]), 0, TRUE)
         /\ UNCHANGED <<world, runs, config, started, now, trainers, sessions, tokens,
                        oauth_states, uuids, sched, sent>>

\* Lines 227-252: a read of the chat's sessions and one reply.
CmdSessions(chat_id) == Respond("sessions", "ok", NoId, 0, TRUE)

\* Switching off that would also put the interval back to its default.
SyncOffAndReset(trainer_id) ==
    /\ trainers' = [trainers EXCEPT
                       ![trainer_id].sync_enabled = FALSE,
                       ![trainer_id].sync_interval_minutes = DefaultSyncInterval]
    /\ last' = Op("sync_off", "ok", trainer_id, 0, TRUE)
    /\ UNCHANGED <<world, runs, config, started, now, clients, sessions, tokens,
                   oauth_states, uuids, sched, sent>>

\* Lines 266-274.
SyncOff(trainer_id) ==
    /\ trainers' = [trainers EXCEPT ![trainer_id].sync_enabled = FALSE]
    /\ last' = Op("sync_off", "ok", trainer_id, 0, TRUE)
    /\ UNCHANGED <<world, runs, config, started, now, clients, sessions, tokens,
                   oauth_states, uuids, sched, sent>>

\* Line 284.
IntervalFor(minutes) == Max(minutes, 1)

\* Lines 275-292, past the int() that succeeded.
SyncInterval(trainer_id, minutes) ==
    /\ trainers' = [trainers EXCEPT
                       ![trainer_id].sync_interval_minutes = IntervalFor(minutes),
                       ![trainer_id].sync_enabled = TRUE]
    /\ last' = Op("sync_interval", "ok", trainer_id, minutes, TRUE)
    /\ UNCHANGED <<world, runs, config, started, now, clients, sessions, tokens,
                   oauth_states, uuids, sched, sent>>

\* Lines 294-302: the manual sync, in the request's own database session.
SyncNowDone(trainer_id, inp, run) ==
    /\ tokens' = run.tokens
    /\ sessions' = run.sessions
    /\ trainers' = IF run.status = "ok"
                   THEN [trainers EXCEPT ![trainer_id].last_synced_at = now]
                   ELSE trainers
    /\ sent' = CountSent(sent, run.reminders)
    /\ last' = SyncOp("sync_now", HttpStatus(run), trainer_id, inp, run,
                      run.status = "ok")
    /\ UNCHANGED <<world, runs, config, started, now, clients, oauth_states, uuids, sched>>

SyncNow(trainer_id) ==
    \E inp \in SyncInputs(trainer_id, now) :
       SyncNowDone(trainer_id, inp,
                   SyncCalendarForTrainer(trainer_id, sessions, now, inp))

\* Lines 254-302.
CmdSync(chat_id, parts) ==
    LET trainer_id == TrainerOfChat(chat_id)
    IN  IF trainer_id = NoId
        THEN Respond("sync_no_trainer", "ok", NoId, 0, TRUE)
        ELSE IF Len(parts) = 2
        THEN IF Lower(parts[2]) \in {"off", "disable", "stop"}
             THEN SyncOff(trainer_id)
             ELSE IF ~IsInt(parts[2])
             THEN Respond("sync_bad_interval", "ok", trainer_id, 0, TRUE)
             ELSE IF ExceedsInteger(parts[2])
             THEN \* max(minutes, 1) does not fit the column: the commit raises
                  Respond("sync_overflow", "500", trainer_id, 0, FALSE)
             ELSE SyncInterval(trainer_id, IntVal(parts[2]))
        ELSE SyncNow(trainer_id)

\* Lines 194-315, for a message that carries a text.
Dispatch(chat_id, text) ==
    LET parts == Parts(text)
    IN  IF Len(parts) = 0
        THEN Respond("no_command", "500", NoId, 0, FALSE)
        ELSE LET command == Lower(parts[1])
             IN  IF command = "/trainer" THEN CmdTrainer(chat_id)
                 ELSE IF command = "/client" /\ Len(parts) >= 3
                 THEN CmdClient(chat_id, parts)
                 ELSE IF command = "/sessions" THEN CmdSessions(chat_id)
                 ELSE IF command = "/sync" THEN CmdSync(chat_id, parts)
                 ELSE Respond("help", "ok", NoId, 0, TRUE)

\* POST /tg/webhook/{secret}.  The database session is a dependency of the
\* handler: get_async_session raises before the body runs when no database
\* is configured.
telegram_webhook(secret, chat_id, text) ==
    /\ started
    /\ sched.pc # "loop"
    /\ IF ~config.database_url
       THEN Respond("no_database", "500", NoId, 0, FALSE)
       ELSE IF ~SecretAccepted(secret)
       THEN Respond("webhook", "404", NoId, 0, FALSE)
       ELSE IF text = NoText
       THEN Respond("no_text", "ok", NoId, 0, FALSE)
       ELSE Dispatch(chat_id, text)

(***************************************************************************)
(* The OAuth flow.                                                         *)
(***************************************************************************)
\* GET /oauth/google/start: a fresh uuid4 state, bound to the trainer (a
\* foreign key).
google_oauth_start(trainer_id) ==
    /\ started
    /\ sched.pc # "loop"
    /\ IF ~config.database_url \/ trainer_id \notin DOMAIN trainers
       THEN Respond(IF config.database_url THEN "oauth_start" ELSE "no_database",
                    "500", NoId, 0, FALSE)
       ELSE /\ uuids < W.flows
            /\ uuids' = uuids + 1
            /\ oauth_states' = oauth_states \cup
                                  {[trainer_id |-> trainer_id, state |-> uuids + 1]}
            /\ last' = Op("oauth_start", "redirect", trainer_id, uuids + 1, FALSE)
            /\ UNCHANGED <<world, runs, config, started, now, trainers, clients,
                           sessions, tokens, sched, sent>>

\* A callback that would leave the state row in the table.
KeepState(states, o) == states

\* Line 364: session.delete(oauth_state).
ConsumeState(states, o) == states \ {o}

\* GET /oauth/google/callback.  answer is Google's reply to the code
\* exchange: fail, access_token, expires_in.
google_oauth_callback(state, answer) ==
    /\ started
    /\ sched.pc # "loop"
    /\ IF ~config.database_url
       THEN Respond("no_database", "500", NoId, 0, FALSE)
       ELSE IF ~\E o \in oauth_states : o.state = state
       THEN Respond("oauth_callback", "400", NoId, state, FALSE)
       ELSE IF answer.fail
       THEN Respond("oauth_callback", "500", NoId, state, FALSE)
       ELSE LET o == CHOOSE o \in oauth_states : o.state = state
            IN  /\ tokens' = Append(tokens, [trainer_id |-> o.trainer_id,
                                             access_token |-> answer.access_token,
                                             expires_at |-> now + answer.expires_in])
                /\ oauth_states' = ConsumeState(oauth_states, o)
                /\ last' = Op("oauth_callback", "ok", o.trainer_id, state, FALSE)
                /\ UNCHANGED <<world, runs, config, started, now, trainers, clients,
                               sessions, uuids, sched, sent>>

(***************************************************************************)
(* POST /calendar/sync/{trainer_id}.                                       *)
(***************************************************************************)
SyncCalendarDone(trainer_id, inp, run) ==
    /\ tokens' = run.tokens
    /\ sessions' = run.sessions
    /\ sent' = CountSent(sent, run.reminders)
    /\ last' = SyncOp("calendar_sync", HttpStatus(run), trainer_id, inp, run, FALSE)
    /\ UNCHANGED <<world, runs, config, started, now, trainers, clients, oauth_states,
                   uuids, sched>>

sync_calendar(trainer_id) ==
    /\ started
    /\ sched.pc # "loop"
    /\ IF ~config.database_url
       THEN Respond("no_database", "500", NoId, 0, FALSE)
       ELSE \E inp \in SyncInputs(trainer_id, now) :
               SyncCalendarDone(trainer_id, inp,
                                SyncCalendarForTrainer(trainer_id, sessions, now, inp))

(***************************************************************************)
(* run_sync_scheduler.                                                     *)
(***************************************************************************)
\* select(Trainer).where(Trainer.sync_enabled.is_(True)), in id order.
RECURSIVE EnabledFrom(_)
EnabledFrom(i) ==
    IF i > Len(trainers) THEN <<>>
    ELSE IF trainers[i].sync_enabled
         THEN <<i>> \o EnabledFrom(i + 1)
         ELSE EnabledFrom(i + 1)

\* A check that would take a trainer that was never synced as due.
DueOrNeverSynced(trainer, t) ==
    \/ trainer.last_synced_at = NoTime
    \/ ~(t - trainer.last_synced_at < trainer.sync_interval_minutes)

\* Lines 136-138: not skipped by the interval check.
IsDue(trainer, t) ==
    LET due_at == IF trainer.last_synced_at = NoTime THEN Epoch
                  ELSE trainer.last_synced_at
    IN  ~(t - due_at < trainer.sync_interval_minutes)

\* Lines 128-134: the sleep is over; a database session is opened and the
\* enabled trainers are loaded.
TickBegin ==
    /\ sched.pc = "sleep"
    /\ now >= sched.wake
    /\ sched' = [pc |-> "loop", wake |-> sched.wake, now |-> now,
                 queue |-> EnabledFrom(1), work |-> sessions]
    /\ last' = Op("tick_begin", "ok", NoId, 0, FALSE)
    /\ UNCHANGED <<world, runs, config, started, now, db, sent>>

\* The loop body as it would be with line 141 in a `finally`: last_synced_at
\* is set whether the run raised or not.
TickTrainerStamped(trainer_id, inp, run) ==
    /\ tokens' = run.tokens
    /\ sessions' = run.sessions
    /\ trainers' = [trainers EXCEPT ![trainer_id].last_synced_at = sched.now]
    /\ sched' = [sched EXCEPT !.queue = Tail(@), !.work = run.work]
    /\ sent' = CountSent(sent, run.reminders)
    /\ last' = SyncOp("scheduler_sync", run.status, trainer_id, inp, run, FALSE)
    /\ UNCHANGED <<world, runs, config, started, now, clients, oauth_states, uuids>>

\* Lines 139-144: the run's outcome, and last_synced_at with its commit.
TickTrainerDone(trainer_id, inp, run) ==
    /\ tokens' = run.tokens
    /\ sessions' = run.sessions
    /\ trainers' = IF run.status = "ok"
                   THEN [trainers EXCEPT ![trainer_id].last_synced_at = sched.now]
                   ELSE trainers
    /\ sched' = [sched EXCEPT !.queue = Tail(@), !.work = run.work]
    /\ sent' = CountSent(sent, run.reminders)
    /\ last' = SyncOp("scheduler_sync", run.status, trainer_id, inp, run, FALSE)
    /\ UNCHANGED <<world, runs, config, started, now, clients, oauth_states, uuids>>

\* Lines 135-144: one trainer of the loop.  A run that raises leaves its
\* pending changes in the tick's database session.
TickTrainer ==
    /\ sched.pc = "loop"
    /\ sched.queue # <<>>
    /\ LET trainer_id == Head(sched.queue)
       IN  IF ~IsDue(trainers[trainer_id], sched.now)
           THEN /\ sched' = [sched EXCEPT !.queue = Tail(@)]
                /\ last' = Op("scheduler_skip", "ok", trainer_id, 0, FALSE)
                /\ UNCHANGED <<world, runs, config, started, now, db, sent>>
           ELSE \E inp \in SyncInputs(trainer_id, sched.now) :
                   TickTrainerDone(trainer_id, inp,
                                   SyncCalendarForTrainer(trainer_id, sched.work,
                                                          sched.now, inp))

\* Lines 128 and 147: the database session is closed, which drops what it
\* had not committed, and the task sleeps.
TickEnd ==
    /\ sched.pc = "loop"
    /\ sched.queue = <<>>
    /\ sched' = SchedIdle("sleep", now + SchedulerSleepMinutes)
    /\ last' = Op("tick_end", "ok", NoId, 0, FALSE)
    /\ UNCHANGED <<world, runs, config, started, now, db, sent>>

(***************************************************************************)
(* The system.                                                             *)
(***************************************************************************)
Next ==
    \/ on_startup
    \/ Advance
    \/ \E secret \in W.secrets, chat_id \in W.chats, text \in W.texts :
          telegram_webhook(secret, chat_id, text)
    \/ \E trainer_id \in 1..Cardinality(W.chats) : google_oauth_start(trainer_id)
    \/ \E state \in 1..MaxOAuthStates, answer \in W.codes :
          google_oauth_callback(state, answer)
    \/ \E trainer_id \in 1..Cardinality(W.chats) : sync_calendar(trainer_id)
    \/ TickBegin
    \/ TickTrainer
    \/ TickEnd

Spec == Init /\ [][Next]_vars

(***************************************************************************)
(* Overlapping runs.  The scheduler task and the request handlers are      *)
(* coroutines of one event loop: a run gives way at each await, and each   *)
(* run has a database session, so a transaction, of its own                *)
(* (storage.py:98, main.py:128).  The database is PostgreSQL (config.py    *)
(* builds a postgresql+asyncpg URL) at its default READ COMMITTED level: a *)
(* statement sees the committed rows and the transaction's own writes, and *)
(* a flushed write holds its row, for an insert the unique                 *)
(* calendar_event_id (storage.py:53), until the transaction ends.          *)
(***************************************************************************)
\* A row in a run's database session: the row as the run has it, the row as
\* it was loaded, whether the run created it, whether it has changes not
\* yet sent to the database, and whether a write of it was sent (which
\* locks it).
Entry(id, row, orig, new) ==
    [id |-> id, row |-> row, orig |-> orig, new |-> new,
     dirty |-> (new \/ row # orig), locked |-> FALSE]

EntryIndex(es, id) ==
    IF \E k \in DOMAIN es : es[k].id = id
    THEN CHOOSE k \in DOMAIN es : es[k].id = id
    ELSE 0

Touch(e, row) == [e EXCEPT !.row = row, !.dirty = (@ \/ row # e.row)]

DirtyIds(es) == {es[k].id : k \in {j \in DOMAIN es : es[j].dirty}}

LockedIds(es) == {es[k].id : k \in {j \in DOMAIN es : es[j].locked}}

Other(r) == CHOOSE o \in RunNames : o # r

\* The flush of r has to wait: a row it writes is locked by the other run.
Waits(r) == DirtyIds(runs[r].entries) \cap LockedIds(runs[Other(r)].entries) # {}

\* The flush of es raises IntegrityError: it inserts an event id that a
\* committed row has.
InsertConflicts(es) ==
    \E k \in DOMAIN es :
       es[k].new /\ ~es[k].locked /\ FindSession(sessions, es[k].id) # NoId

\* session.flush(): the pending writes are sent.
Flushed(es) ==
    [k \in DOMAIN es |-> [es[k] EXCEPT !.dirty = FALSE, !.locked = (@ \/ es[k].dirty)]]

\* An UPDATE sets the columns the run changed.
Merge(row, e) ==
    [c \in DOMAIN row |-> IF e.row[c] # e.orig[c] THEN e.row[c] ELSE row[c]]

\* session.commit(): the run's inserts and updates reach the table.
RECURSIVE ApplyEntries(_, _)
ApplyEntries(rows, es) ==
    IF Len(es) = 0 THEN rows
    ELSE ApplyEntries(IF es[1].new THEN Append(rows, es[1].row)
                      ELSE [rows EXCEPT ![FindSession(rows, es[1].id)] = Merge(@, es[1])],
                      Tail(es))

RunOps(r) == IF r = "scheduled" THEN {"scheduler_sync"} ELSE {"sync_now", "calendar_sync"}

\* The run is over; its database session is closed, which drops what it had
\* not committed and releases its locks.
RunOver(run, status) == [run EXCEPT !.pc = "done", !.status = status, !.entries = <<>>]

\* The loop goes on to the next event, or to the commit of line 118.
NextEvent(run, es) ==
    [run EXCEPT !.entries = es, !.i = @ + 1,
                !.pc = IF run.i = Len(run.evs) THEN "commit" ELSE "event"]

RunStep(r, run) ==
    /\ runs' = [runs EXCEPT ![r] = run]
    /\ last' = Op(run.op, run.status, run.trainer, 0, FALSE)

\* Lines 48-69: the token (refreshed and committed when near expiry), the
\* fetch and the client map.  None of it reads or writes a session row.
RunBegin(r, op, trainer_id) ==
    /\ runs[r].pc = "idle"
    /\ \E inp \in {i \in SyncInputs(trainer_id, now) : i.failAt = 0} :
          LET k == inp.row
              begun == [IdleRun EXCEPT !.op = op, !.trainer = trainer_id, !.t = now]
          IN  /\ tokens' = IF k # NoId /\ NeedsRefresh(tokens[k].expires_at, now)
                                       /\ inp.fail # "refresh"
                            THEN [tokens EXCEPT ![k].access_token = inp.access_token,
                                                ![k].expires_at = now + inp.expires_in]
                            ELSE tokens
              /\ RunStep(r, IF k = NoId THEN RunOver(begun, "400")
                            ELSE IF inp.fail # "none" THEN RunOver(begun, "error")
                            ELSE [begun EXCEPT
                                     !.status = "running",
                                     !.evs = inp.events,
                                     !.pc = IF inp.events = <<>> THEN "commit" ELSE "event",
                                     !.client_map = ClientMap(ClientsOf(trainer_id))])
    /\ UNCHANGED <<world, config, started, now, trainers, clients, sessions,
                   oauth_states, uuids, sched, sent>>

\* The run is at a statement that flushes: the select of line 86 for an
\* event with times, or the commit of line 118.
Flushing(run) ==
    \/ run.pc = "commit"
    \/ /\ run.pc = "event"
       /\ ~LacksTime(run.evs[run.i])
       /\ run.evs[run.i].start # BadDT
       /\ run.evs[run.i].end # BadDT

\* Lines 72-110 for the event the run is at: the autoflush and the select,
\* then the upsert in the run's own database session.
RunEvent(r) ==
    LET run == runs[r]
        ev == run.evs[run.i]
        matched == MatchedClient(run.client_map, EventSummary(ev))
        es == Flushed(run.entries)
        k == EntryIndex(es, ev.id)
        j == FindSession(sessions, ev.id)
        es2 == IF k # 0
               THEN [es EXCEPT ![k] = Touch(@, UpdateSession(@.row, matched, ev))]
               ELSE IF j # NoId
               THEN Append(es, Entry(ev.id, UpdateSession(sessions[j], matched, ev),
                                     sessions[j], FALSE))
               ELSE Append(es, Entry(ev.id, NewSession(run.trainer, matched, ev),
                                     NewSession(run.trainer, matched, ev), TRUE))
    IN  /\ run.pc = "event"
        /\ IF LacksTime(ev) THEN RunStep(r, NextEvent(run, run.entries))
           ELSE IF ~Flushing(run) THEN RunStep(r, RunOver(run, "error"))
           ELSE /\ ~Waits(r)
                /\ IF InsertConflicts(run.entries)
                   THEN RunStep(r, RunOver(run, "error"))
                   ELSE IF ShouldNotify(es2[EntryIndex(es2, ev.id)].row, matched, ev, run.t)
                   THEN RunStep(r, [run EXCEPT !.entries = es2, !.pc = "send"])
                   ELSE RunStep(r, NextEvent(run, es2))
        /\ UNCHANGED <<world, config, started, now, trainers, clients, sessions,
                       tokens, oauth_states, uuids, sched, sent>>

\* Lines 111-116: the post to Telegram, which may raise, and notified_at.
RunSend(r, delivered) ==
    LET run == runs[r]
        id == run.evs[run.i].id
        k == EntryIndex(run.entries, id)
    IN  /\ run.pc = "send"
        /\ IF delivered
           THEN /\ sent' = CountSent(sent, <<id>>)
                /\ RunStep(r, NextEvent(run,
                       [run.entries EXCEPT
                           ![k] = Touch(@, [@.row EXCEPT !.notified_at = run.t])]))
           ELSE /\ sent' = sent
                /\ RunStep(r, RunOver(run, "error"))
        /\ UNCHANGED <<world, config, started, now, trainers, clients, sessions,
                       tokens, oauth_states, uuids, sched>>

\* Line 118, and for the scheduler and `/sync` last_synced_at with its
\* commit (lines 141-142, 295-296).
RunCommit(r) ==
    LET run == runs[r]
    IN  /\ run.pc = "commit"
        /\ ~Waits(r)
        /\ IF InsertConflicts(run.entries)
           THEN /\ RunStep(r, RunOver(run, "error"))
                /\ UNCHANGED <<sessions, trainers>>
           ELSE /\ sessions' = ApplyEntries(sessions, run.entries)
                /\ trainers' = IF run.op = "calendar_sync" THEN trainers
                                ELSE [trainers EXCEPT ![run.trainer].last_synced_at = run.t]
                /\ RunStep(r, RunOver(run, "ok"))
        /\ UNCHANGED <<world, config, started, now, clients, tokens, oauth_states,
                       uuids, sched, sent>>

\* Each run waits for a row the other has locked: the database ends one of
\* the two transactions with an error.
RunDeadlock(r) ==
    /\ Flushing(runs[r]) /\ Waits(r)
    /\ Flushing(runs[Other(r)]) /\ Waits(Other(r))
    /\ RunStep(r, RunOver(runs[r], "error"))
    /\ UNCHANGED <<world, config, started, now, trainers, clients, sessions,
                   tokens, oauth_states, uuids, sched, sent>>

\* The world of the overlapping runs: one trainer with a client whose name
\* is in the summaries, and a calendar of two events.
RaceWorld ==
    World("race", {101}, SetupTexts, 1, {ConfiguredSecret}, {EvTraining, EvSecond},
          1, FreshCode, 0, {FullConfig})

\* The application some time after startup: the trainer of chat 101 has
\* registered, connected a calendar (the token is fresh), switched
\* auto-sync on with `/sync 1` and has a client; either no event was synced
\* yet, or e1 was synced when it started past the notification window.
InitConcurrent ==
    /\ world = RaceWorld
    /\ config = FullConfig
    /\ started = TRUE
    /\ now = T0
    /\ trainers = <<[NewTrainer(101) EXCEPT !.sync_enabled = TRUE,
                                           !.sync_interval_minutes = IntervalFor(1)]>>
    /\ clients = <<NewClient(Len(trainers), "Bo", 101)>>
    /\ tokens = <<[trainer_id |-> Len(trainers), access_token |-> "ya29.a",
                   expires_at |-> now + RefreshMarginMinutes + 1]>>
    /\ oauth_states = {}
    /\ uuids = Len(tokens)
    /\ sessions \in {<<>>, <<NewSession(Len(trainers), Len(clients), EvMoved)>>}
    /\ sched = SchedIdle("sleep", now)
    /\ sent = [e \in EventIds |-> 0]
    /\ runs = [r \in RunNames |-> IdleRun]
    /\ last = Op("startup", "ok", NoId, 0, FALSE)

NextConcurrent ==
    \E r \in RunNames :
       \/ \E op \in RunOps(r), trainer_id \in DOMAIN trainers : RunBegin(r, op, trainer_id)
       \/ RunEvent(r)
       \/ \E delivered \in BOOLEAN : RunSend(r, delivered)
       \/ RunCommit(r)
       \/ RunDeadlock(r)

Concurrent == InitConcurrent /\ [][NextConcurrent]_vars

(***************************************************************************)
(* Properties.  A step is read off the two states it joins: last' says     *)
(* which operation ran, on what, and what it did.                          *)
(***************************************************************************)
SyncOps == {"sync_now", "calendar_sync", "scheduler_sync"}

\* The rows the database session of the running operation holds: the tick's
\* own session while the scheduler loops, the committed table otherwise.
Visible(committed, task) == IF task.pc = "loop" THEN task.work ELSE committed

\* An event of a fetched list that the run turns into a session.
HasTimes(ev) == ev.start \notin {NoDT, BadDT} /\ ev.end \notin {NoDT, BadDT}

Occurrences(evs, id) == {k \in DOMAIN evs : evs[k].id = id /\ HasTimes(evs[k])}

Latest(ks) == CHOOSE k \in ks : \A j \in ks : j <= k

RowsOf(rows, id) == {i \in DOMAIN rows : rows[i].calendar_event_id = id}

UniqueEventIds(rows) == \A id \in EventIds : Cardinality(RowsOf(rows, id)) <= 1

\* The client the run of a trainer matches to an event.
MatchOf(trainer_id, ev) ==
    MatchedClient(ClientMap(ClientsOf(trainer_id)), EventSummary(ev))

\* A step that is a sync run which committed.
SyncCommitted == last'.op \in SyncOps /\ last'.status = "ok"

\* C1: over any sequence of sync runs, at most one reminder is ever sent per
\* calendar event id.
C1_AtMostOneReminder == \A id \in EventIds : sent[id] <= 1

\* A run posted a reminder for an event that an earlier run had already
\* posted one for.
C1_SentTwice ==
    /\ last.op \in SyncOps
    /\ \E k \in DOMAIN last.reminders : sent[last.reminders[k]] = 2

\* A committed run leaves one row per event id it processed: a row that was
\* there keeps its place and takes the summary, start and end of the event's
\* latest occurrence in the list; no other row is added.
C2_UpsertStep ==
    SyncCommitted =>
        LET before == Visible(sessions, sched)
            evs == last'.events
            seen == {id \in EventIds : Occurrences(evs, id) # {}}
        IN  /\ Len(sessions') = Len(before)
                  + Cardinality({id \in seen : RowsOf(before, id) = {}})
            /\ \A id \in seen :
                  LET ev == evs[Latest(Occurrences(evs, id))]
                  IN  /\ Cardinality(RowsOf(sessions', id)) = 1
                      /\ RowsOf(before, id) \subseteq RowsOf(sessions', id)
                      /\ \A i \in RowsOf(sessions', id) :
                            /\ sessions'[i].summary = EventSummary(ev)
                            /\ sessions'[i].start_time = ev.start
                            /\ sessions'[i].end_time = ev.end

\* C2: in every reachable state there is at most one TrainingSession per
\* calendar_event_id, and a sync that sees a stored event id updates the
\* stored session (summary, start, end) instead of adding a second one, also
\* for an id that occurs twice in one list or is fetched by two trainers.
C2_OneSessionPerEvent ==
    /\ [](UniqueEventIds(sessions) /\ UniqueEventIds(sched.work))
    /\ [][C2_UpsertStep]_vars

\* A trainer's run has just updated, from a list that holds the id twice, a
\* session that another trainer's run created.
C2_SharedEventUpdated ==
    /\ last.op \in SyncOps
    /\ last.status = "ok"
    /\ \E id \in EventIds :
          /\ Cardinality(Occurrences(last.events, id)) = 2
          /\ \E i \in RowsOf(sessions, id) : sessions[i].trainer_id # last.trainer

\* In a step that is a sync run: the rows its database session held before,
\* the event ids it processed, the latest occurrence of one, and the client
\* stored for one after the run.
Before == Visible(sessions, sched)

SeenIds == {id \in EventIds : Occurrences(last'.events, id) # {}}

LatestEvent(id) == last'.events[Latest(Occurrences(last'.events, id))]

ClientsAfter(id) == {sessions'[i].client_id : i \in RowsOf(sessions', id)}

\* The client of the event's latest occurrence that matched one; when none
\* matched, the client the session had before, none for a new session.
KeptOrMatched(id) ==
    LET hits == {k \in Occurrences(last'.events, id) :
                    MatchOf(last'.trainer, last'.events[k]) # NoId}
    IN  IF hits # {} THEN MatchOf(last'.trainer, last'.events[Latest(hits)])
        ELSE IF RowsOf(Before, id) = {} THEN NoId
        ELSE Before[CHOOSE i \in RowsOf(Before, id) : TRUE].client_id

\* C3 as stated: the stored client is the client matched for the event in
\* that run, and is unset when no client name occurs in the summary, for new
\* sessions and for sessions that already existed alike.
C3_ClientIsMatched ==
    [][SyncCommitted =>
          \A id \in SeenIds :
             ClientsAfter(id) = {MatchOf(last'.trainer, LatestEvent(id))}]_vars

\* C3: the stored client is the client matched for the event's latest
\* occurrence that matched one; when none matched, a session that already
\* existed keeps the client it had and a new session has none.
C3_ClientKeptWithoutMatch ==
    [][SyncCommitted => \A id \in SeenIds : ClientsAfter(id) = {KeptOrMatched(id)}]_vars

\* A run whose only event matched no client has left the client of the
\* stored session in place.
C3_StaleClientKept ==
    /\ last.op \in SyncOps
    /\ last.status = "ok"
    /\ Len(last.events) = 1
    /\ HasTimes(last.events[1])
    /\ MatchOf(last.trainer, last.events[1]) = NoId
    /\ \E i \in RowsOf(sessions, last.events[1].id) : sessions[i].client_id # NoId

\* The clients whose lowercased name occurs in the lowercased summary.
Hits(cl, summary) ==
    {i \in DOMAIN cl : cl[i].name # "" /\ Contains(Lower(cl[i].name), Lower(summary))}

Earliest(ks) == CHOOSE k \in ks : \A j \in ks : k <= j

\* The first of them in load order.
FirstLoaded(cl, summary) ==
    IF Hits(cl, summary) = {} THEN NoId ELSE cl[Earliest(Hits(cl, summary))].id

\* The last-loaded client with the same lowercased name as the first of them.
LastNamesake(cl, summary) ==
    IF Hits(cl, summary) = {} THEN NoId
    ELSE LET first == cl[Earliest(Hits(cl, summary))]
         IN  cl[Latest({j \in DOMAIN cl : Lower(cl[j].name) = Lower(first.name)})].id

\* The event ids for which a run creates a session from a single occurrence.
NewIds ==
    {id \in EventIds : /\ Cardinality(Occurrences(last'.events, id)) = 1
                       /\ RowsOf(Before, id) = {}}

\* C4 as stated: the matched client is the first client, in load order,
\* whose lowercased name is a substring of the lowercased summary, also when
\* two clients have names equal after lowercasing or one name is a substring
\* of another.
C4_FirstLoadedClient ==
    [][SyncCommitted =>
          \A id \in NewIds :
             ClientsAfter(id) = {FirstLoaded(ClientsOf(last'.trainer),
                                             EventSummary(LatestEvent(id)))}]_vars

\* C4: the matched client is found by the first such client's lowercased
\* name, and is the client loaded last among those with that lowercased name.
C4_LastNamesakeOfFirst ==
    [][SyncCommitted =>
          \A id \in NewIds :
             ClientsAfter(id) = {LastNamesake(ClientsOf(last'.trainer),
                                              EventSummary(LatestEvent(id)))}]_vars

\* A run has created a session for a trainer with two clients whose names are
\* equal after lowercasing, and the session has the second of them.
C4_NamesakeMatched ==
    /\ last.op \in SyncOps
    /\ last.status = "ok"
    /\ Len(last.events) = 1
    /\ LET cl == ClientsOf(last.trainer)
       IN  /\ Len(cl) = 2
           /\ Lower(cl[1].name) = Lower(cl[2].name)
           /\ \E i \in RowsOf(sessions, last.events[1].id) :
                 sessions[i].client_id = cl[2].id

DayMinutes == 24 * 60

\* A row whose notified_at a step has set: the step is a sync run at the
\* present minute, in which an occurrence of the row's event matched a
\* client and starts within [now, now + 24h].
C5_NotifyStep ==
    LET before == Visible(sessions, sched)
        after == Visible(sessions', sched')
    IN  \A i \in DOMAIN after :
           (/\ after[i].notified_at # NoTime
            /\ (i \notin DOMAIN before \/ before[i].notified_at = NoTime)) =>
              /\ last'.op \in SyncOps
              /\ after[i].notified_at = now
              /\ \E k \in Occurrences(last'.events, after[i].calendar_event_id) :
                    /\ MatchOf(last'.trainer, last'.events[k]) # NoId
                    /\ now <= last'.events[k].start
                    /\ last'.events[k].start <= now + DayMinutes

\* C5: a session with notified_at set was, in the run that set it, matched to
\* a client and started within [now, now + 24h] of that run, both bounds
\* included; so it has a client, and no run sets notified_at for an event
\* without a matched client, one that already started, or one starting later.
C5_NotifiedOnlyInWindow ==
    /\ [](\A i \in DOMAIN sessions :
             sessions[i].notified_at # NoTime => sessions[i].client_id # NoId)
    /\ [][C5_NotifyStep]_vars

\* A run has just notified a session that starts exactly 24 hours later.
C5_NotifiedAtWindowEnd ==
    /\ last.op \in SyncOps
    /\ \E i \in DOMAIN sessions :
          /\ sessions[i].notified_at = now
          /\ sessions[i].start_time = now + DayMinutes
          /\ \E k \in DOMAIN last.reminders :
                last.reminders[k] = sessions[i].calendar_event_id

HasToken(trainer_id) == \E i \in DOMAIN tokens : tokens[i].trainer_id = trainer_id

\* C6: a sync run for a trainer without a stored OAuth token fails with HTTP
\* 400 before any refresh, fetch, session write or notification, and leaves
\* every stored record unchanged.
C6_NoTokenIs400 ==
    [][(last'.op \in SyncOps /\ ~HasToken(last'.trainer)) =>
          /\ last'.status = "400"
          /\ ~last'.refreshed
          /\ last'.fetched = NoToken
          /\ last'.reminders = <<>>
          /\ Visible(sessions', sched') = Visible(sessions, sched)
          /\ UNCHANGED <<trainers, clients, sessions, tokens, oauth_states, sent>>]_vars

\* A sync of a registered trainer without a token has just been refused.
C6_RefusedWithoutToken ==
    /\ last.op \in SyncOps
    /\ last.status = "400"
    /\ last.trainer \in DOMAIN trainers
    /\ ~HasToken(last.trainer)

\* C7: a run refreshes the stored token iff its expiry is at or before now +
\* 60 seconds; otherwise it asks for no refresh, leaves the stored token as
\* it is and fetches with the stored access token.  After a refresh the
\* fetch is made with the new access token.
C7_RefreshOnlyNearExpiry ==
    [][(last'.op \in SyncOps /\ HasToken(last'.trainer)) =>
          LET k == last'.row
              near == tokens[k].expires_at <= now + 1
          IN  /\ last'.refreshed <=> near
              /\ ~near => /\ tokens' = tokens
                          /\ last'.fetched = tokens[k].access_token
              /\ (near /\ last'.fetched # NoToken) =>
                    last'.fetched = tokens'[k].access_token]_vars

\* A run has refreshed the token and fetched with the new access token.
C7_FetchedWithRefreshed ==
    /\ last.op \in SyncOps
    /\ last.status = "ok"
    /\ last.refreshed
    /\ HasToken(last.trainer)
    /\ last.fetched = tokens[last.row].access_token

\* The webhook is delivered with the configured secret to an application
\* that has its database.
Delivered(chat_id, text) ==
    /\ text \in W.texts
    /\ config.database_url
    /\ config.telegram_webhook_secret = ConfiguredSecret
    /\ telegram_webhook(ConfiguredSecret, chat_id, text)

\* No sync ran in the step and nothing but the trainers table changed.
OnlyTrainersChange ==
    /\ last'.fetched = NoToken
    /\ ~last'.refreshed
    /\ last'.reminders = <<>>
    /\ UNCHANGED <<clients, sessions, tokens, oauth_states, sent>>

\* `/sync <n>` for integers n, with str(max(n, 1)).
SyncIntervalCases ==
    {<<"/sync -1", "1">>, <<"/sync 0", "1">>, <<"/sync 1", "1">>, <<"/sync 2", "2">>,
     <<"/sync 2147483648", "2147483648">>}

\* C8: for every integer n, `/sync <n>` from a registered trainer's chat sets
\* the trainer's sync_interval_minutes to max(n, 1) and sync_enabled to true,
\* runs no sync and leaves last_synced_at as it is.
C8_SyncIntervalIsMax ==
    [][\A chat_id \in W.chats, c \in SyncIntervalCases :
          (TrainerOfChat(chat_id) # NoId /\ Delivered(chat_id, c[1])) =>
             LET trainer_id == TrainerOfChat(chat_id)
             IN  /\ trainers'[trainer_id].sync_enabled
                 /\ IntToStr(trainers'[trainer_id].sync_interval_minutes) = c[2]
                 /\ trainers'[trainer_id].last_synced_at =
                       trainers[trainer_id].last_synced_at
                 /\ OnlyTrainersChange]_vars

\* `/sync <n>` with n beyond the Integer column has just failed.
C8_IntervalOverflow ==
    /\ last.op = "sync_overflow"
    /\ last.status = "500"
    /\ ~trainers[last.trainer].sync_enabled

SyncOffTexts == {"/sync off", "/sync Stop", "/sync DISABLE"}

\* C9: `/sync off`, `/sync disable` or `/sync stop`, in any letter case, from
\* a registered trainer's chat sets sync_enabled to false and leaves the
\* trainer's interval and last_synced_at, every other trainer, and all
\* sessions and tokens unchanged, and runs no sync.
C9_SyncOffFrame ==
    [][\A chat_id \in W.chats, text \in SyncOffTexts :
          (TrainerOfChat(chat_id) # NoId /\ Delivered(chat_id, text)) =>
             /\ trainers' = [trainers EXCEPT
                                ![TrainerOfChat(chat_id)].sync_enabled = FALSE]
             /\ OnlyTrainersChange]_vars

\* Auto-sync has just been switched off for a trainer with an interval of
\* its own, next to another trainer who keeps auto-sync on.
C9_SwitchedOff ==
    /\ last.op = "sync_off"
    /\ ~trainers[last.trainer].sync_enabled
    /\ trainers[last.trainer].sync_interval_minutes # DefaultSyncInterval
    /\ \E other \in DOMAIN trainers : trainers[other].sync_enabled

\* A webhook request whose secret is not the configured one answers with
\* status and changes nothing: no record, no sync, no Telegram message.
RejectedWith(Status) ==
    \A secret \in W.secrets, chat_id \in W.chats, text \in W.texts :
       (/\ secret # config.telegram_webhook_secret
        /\ telegram_webhook(secret, chat_id, text)) =>
          /\ last'.status = Status
          /\ ~last'.replied
          /\ last'.fetched = NoToken
          /\ last'.reminders = <<>>
          /\ UNCHANGED <<db, sent, sched>>

\* C10 as stated: a POST to /tg/webhook/{secret} whose secret is not exactly
\* the configured one is rejected with 404 and has no effect.
C10_WrongSecretIs404 == [][RejectedWith("404")]_vars

\* C10: such a request is rejected with 404 when the application has its
\* database and with 500 when it has none (the secret is not looked at
\* then), and has no effect in either case.
C10_WrongSecretRejected ==
    [][RejectedWith(IF config.database_url THEN "404" ELSE "500")]_vars

\* A request has just been rejected with 404 while a trainer is registered.
C10_Rejected ==
    /\ last.op = "webhook"
    /\ last.status = "404"
    /\ trainers # <<>>

\* The states google_oauth_start has issued so far (uuid4 draws, numbered).
Issued == 1..uuids

\* A step in which a token row is added is a callback that presented a state
\* in the table; the row is for the trainer the state was issued for and the
\* state leaves the table.  Only google_oauth_start puts a state in the
\* table, and it is a state never issued before.
C11_TokenStep ==
    /\ Len(tokens') > Len(tokens) =>
          /\ last'.op = "oauth_callback"
          /\ last'.status = "ok"
          /\ \E o \in oauth_states :
                /\ o.state = last'.arg
                /\ last'.trainer = o.trainer_id
                /\ Len(tokens') = Len(tokens) + 1
                /\ SubSeq(tokens', 1, Len(tokens)) = tokens
                /\ tokens'[Len(tokens')].trainer_id = o.trainer_id
                /\ oauth_states' = oauth_states \ {o}
    /\ \A o \in oauth_states' \ oauth_states :
          /\ last'.op = "oauth_start"
          /\ o.state \notin Issued
          /\ o.state \in 1..uuids'
          /\ o.trainer_id = last'.trainer

\* A callback request with a state that is not in the table answers with
\* status and changes nothing.
UnknownStateIs(Status) ==
    \A state \in 1..MaxOAuthStates, answer \in W.codes :
       (/\ state \notin {o.state : o \in oauth_states}
        /\ google_oauth_callback(state, answer)) =>
          /\ last'.status = Status
          /\ UNCHANGED <<db, sent>>

\* C11 as stated: an OAuth state is single-use: the callback stores a token
\* only when the presented state was created by /oauth/google/start and has
\* not yet been consumed, the token is stored for the trainer the state was
\* issued for, and the state is deleted on success; a callback with an
\* unknown or already consumed state is rejected with a client error (400)
\* and stores no token.
C11_UnknownStateIs400 ==
    /\ [](\A o \in oauth_states : o.state \in Issued)
    /\ [][C11_TokenStep /\ UnknownStateIs("400")]_vars

\* C11: the same, with the rejection a 400 when the application has its
\* database and a 500 when it has none (no state is looked up then).
C11_StateIsSingleUse ==
    /\ [](\A o \in oauth_states : o.state \in Issued)
    /\ [][/\ C11_TokenStep
          /\ UnknownStateIs(IF config.database_url THEN "400" ELSE "500")]_vars

\* A callback has just been rejected for a state that was issued and that an
\* earlier callback consumed.
C11_ConsumedStateRejected ==
    /\ last.op = "oauth_callback"
    /\ last.status = "400"
    /\ last.arg \in Issued
    /\ \E i \in DOMAIN tokens : TRUE

\* The token row the most recent callback of a trainer stored (ids grow).
LatestToken(trainer_id) == Latest(TokensOf(tokens, trainer_id))

\* C12: there is one OAuth token per trainer and the latest wins: after a
\* trainer completed the OAuth flow more than once, a sync for that trainer
\* uses, and when near expiry refreshes, the token stored by the most recent
\* callback, never an earlier one.
C12_LatestTokenWins ==
    [][(last'.op \in SyncOps /\ HasToken(last'.trainer)) =>
          /\ last'.row = LatestToken(last'.trainer)
          /\ \A i \in DOMAIN tokens :
                i # LatestToken(last'.trainer) => tokens'[i] = tokens[i]]_vars

\* A run has refreshed and fetched with a token that an earlier callback of
\* the trainer stored, while a later one is in the table.
C12_EarlierTokenUsed ==
    /\ last.op \in SyncOps
    /\ last.status = "ok"
    /\ last.refreshed
    /\ last.row \in TokensOf(tokens, last.trainer)
    /\ last.row < LatestToken(last.trainer)
    /\ last.fetched = tokens[last.row].access_token

\* A step of the scheduler's loop over the trainers of a tick: the loop goes
\* on to the next trainer whatever the run did, a run that succeeded sets the
\* trainer's last_synced_at to the tick's time, and what the step commits
\* comes from that trainer's own run: a row it adds or changes is a row of an
\* event the run fetched.
C13_TickStep ==
    (sched.pc = "loop" /\ last'.op = "scheduler_sync") =>
        /\ sched'.pc = "loop"
        /\ sched'.queue = Tail(sched.queue)
        /\ last'.trainer = Head(sched.queue)
        /\ last'.status = "ok" =>
               trainers'[last'.trainer].last_synced_at = sched.now
        /\ \A j \in DOMAIN trainers :
               j # last'.trainer => trainers'[j] = trainers[j]
        /\ \A i \in DOMAIN sessions' :
               (i \notin DOMAIN sessions \/ sessions'[i] # sessions[i]) =>
                  Occurrences(last'.events, sessions'[i].calendar_event_id) # {}

\* C13: in a scheduler tick, a failure of the sync of one trainer does not
\* abort the loop or affect other trainers: every other enabled and due
\* trainer of the tick is still synced and gets its last_synced_at updated,
\* nothing of the failed trainer's run is persisted through another
\* trainer's commit, and the loop goes on to the next tick.
C13_FailureIsIsolated ==
    /\ [](sched.pc = "loop" =>
             \A k \in DOMAIN sched.queue : trainers[sched.queue[k]].sync_enabled)
    /\ [][/\ C13_TickStep
          /\ last'.op = "tick_begin" => sched'.queue = EnabledFrom(1)
          /\ last'.op = "tick_end" =>
                 sched.queue = <<>> /\ sched'.pc = "sleep"]_vars

\* A trainer's run, which fetched no event, has just committed a session that
\* the failed run of the trainer before it in the tick had left behind.
C13_LeftoverCommitted ==
    /\ last.op = "scheduler_sync"
    /\ last.status = "ok"
    /\ last.stale
    /\ last.events = <<>>
    /\ \E i \in DOMAIN sessions : sessions[i].trainer_id # last.trainer
    /\ trainers[last.trainer].last_synced_at # NoTime

\* Minutes from a trainer's last sync, or from the epoch if it never was
\* synced, to t.
SinceSynced(trainer, t) ==
    IF trainer.last_synced_at = NoTime THEN t - Epoch ELSE t - trainer.last_synced_at

\* A tick loads the trainers with sync_enabled; of those it runs the sync
\* for the ones whose interval has elapsed at the tick's time and skips the
\* others.
C14_DueStep ==
    /\ last'.op = "tick_begin" =>
          \A j \in DOMAIN trainers :
             trainers[j].sync_enabled <=> \E k \in DOMAIN sched'.queue : sched'.queue[k] = j
    /\ last'.op \in {"scheduler_sync", "scheduler_skip"} =>
          LET trainer == trainers[last'.trainer]
          IN  /\ trainer.sync_enabled
              /\ last'.op = "scheduler_sync" <=>
                     SinceSynced(trainer, sched.now) >= trainer.sync_interval_minutes
              /\ (last'.op = "scheduler_sync" /\ last'.status = "ok") =>
                     SinceSynced(trainers'[last'.trainer], sched.now) = 0

Commands == {"/trainer", "/client", "/sessions", "/sync"}

\* A text whose first word is not a command, or is `/client` with fewer than
\* two arguments, or that has no word at all.
Unrecognized(text) ==
    /\ text # NoText
    /\ \/ Len(Parts(text)) = 0
       \/ Lower(Parts(text)[1]) \notin Commands
       \/ Lower(Parts(text)[1]) = "/client" /\ Len(Parts(text)) < 3

\* C15: for every webhook message that carries a text whose first
\* whitespace-delimited token is not a recognized command in a valid form
\* (including whitespace-only text and `/client` with fewer than two
\* arguments), the handler sends the help message to the chat, changes no
\* stored record, and returns ok.
C15_HelpForUnrecognized ==
    [][\A chat_id \in W.chats, text \in W.texts :
          (Unrecognized(text) /\ Delivered(chat_id, text)) =>
             /\ last'.op = "help"
             /\ last'.status = "ok"
             /\ last'.replied
             /\ UNCHANGED <<db, sent, sched>>]_vars

\* A message whose text has no word has just failed with a server error and
\* no reply, next to a registered trainer.
C15_BlankTextFails ==
    /\ last.op = "no_command"
    /\ last.status = "500"
    /\ ~last.replied
    /\ trainers # <<>>

\* A step that is a sync run which raised.
SyncAborted == last'.op \in SyncOps /\ last'.status # "ok"

\* C16: the side effects of one sync run (token mutation, session upserts,
\* notified_at marks) are committed together at the end of the run: if the
\* run aborts at any step (token refresh, calendar fetch, event parsing or
\* notification send fails), none of its token or session changes are
\* persisted.
C16_AbortPersistsNothing ==
    [][SyncAborted => UNCHANGED <<tokens, sessions, trainers>>]_vars

\* A run has raised after its refresh, and the table holds the refreshed
\* token: the row the run read was near expiry and no longer is.
C16_RefreshedTokenKept ==
    /\ last.op \in SyncOps
    /\ last.status \in {"500", "error"}
    /\ last.refreshed
    /\ last.fetched # NoToken
    /\ last.row \in DOMAIN tokens
    /\ tokens[last.row].access_token = last.fetched
    /\ ~NeedsRefresh(tokens[last.row].expires_at, now)

\* C17: a reminder that was sent in a sync run that later aborts before its
\* final commit is not sent a second time by the next sync run of the same
\* event: a run posts a reminder only for an event no run has posted one
\* for, whether or not that run committed.
C17_NoResendAfterAbort ==
    [][last'.op \in SyncOps =>
          \A k \in DOMAIN last'.reminders : sent[last'.reminders[k]] = 0]_vars

\* A run of a single event has committed and posted the event's reminder a
\* second time: the run that posted the first had raised before its commit.
C17_ResentByNextRun ==
    /\ last.op \in SyncOps
    /\ last.status = "ok"
    /\ Len(last.events) = 1
    /\ last.reminders = <<last.events[1].id>>
    /\ sent[last.events[1].id] = 2
    /\ \E i \in RowsOf(sessions, last.events[1].id) : sessions[i].notified_at = now

\* The events of a list that have a start and an end.
RECURSIVE Timed(_)
Timed(evs) ==
    IF Len(evs) = 0 THEN <<>>
    ELSE IF evs[1].start # NoDT /\ evs[1].end # NoDT
         THEN <<evs[1]>> \o Timed(Tail(evs))
         ELSE Timed(Tail(evs))

\* When the run of a step began, and the inputs it may have had when it
\* fetched the list the step records.
RunTime == IF sched.pc = "loop" THEN sched.now ELSE now

InputsOfStep ==
    {SyncInput(last'.row, r, last'.events, "none", n) :
        r \in {a \in RefreshAnswers(last'.row, RunTime) : a.fail = "none"},
        n \in 0..Len(last'.events)}

\* What a run leaves: its status, the rows it holds and commits, the token
\* table and the reminders it posted.
Outcome(run) == <<run.status, run.sessions, run.work, run.tokens, run.reminders>>

\* A sync run touches no session of an event id for which its list has no
\* event with both times and posts no reminder for it; and the run, whatever
\* else happens in it, ends as the same run would on the list without the
\* events that lack a start or an end.
C19_SkipStep ==
    last'.op \in SyncOps =>
       /\ \A id \in EventIds :
              Occurrences(last'.events, id) = {} =>
                 /\ RowsOf(Visible(sessions', sched'), id) = RowsOf(Before, id)
                 /\ \A i \in RowsOf(Before, id) :
                        Visible(sessions', sched')[i] = Before[i]
                 /\ \A k \in DOMAIN last'.reminders : last'.reminders[k] # id
       /\ \A inp \in {i \in InputsOfStep : Timed(i.events) # i.events} :
              Outcome(SyncCalendarForTrainer(last'.trainer, Before, RunTime, inp))
                 = Outcome(SyncCalendarForTrainer(last'.trainer, Before, RunTime,
                                                  [inp EXCEPT !.events = Timed(@)]))

\* C19: an event that lacks a start datetime or an end datetime is skipped
\* silently: no session is created or updated for it, no reminder is sent
\* for it, and the run goes on to process the remaining events and completes
\* successfully.
C19_UntimedEventSkipped == [][C19_SkipStep]_vars

\* A run whose list began with an event without times and went on with a
\* timed event of another id has committed: it stored the second and sent
\* its reminder, and there is no session of the first.
C19_SkippedThenStored ==
    /\ last.op \in SyncOps
    /\ last.status = "ok"
    /\ Len(last.events) = 2
    /\ last.events[1].start = NoDT
    /\ HasTimes(last.events[2])
    /\ last.events[1].id # last.events[2].id
    /\ RowsOf(sessions, last.events[1].id) = {}
    /\ RowsOf(sessions, last.events[2].id) # {}
    /\ last.reminders = <<last.events[2].id>>

\* C20: after application startup the scheduler loop is running whenever a
\* database is configured; the scheduler is disabled only when the database
\* URL is missing, independent of the auto-migrate flag.
C20_SchedulerRunsWithDatabase ==
    started => (sched.pc # "off" <=> config.database_url)

\* The application has started with its database and without AUTO_MIGRATE;
\* a trainer has auto-sync on and was never synced, and there is no
\* scheduler task.
C20_NoSchedulerWithoutMigrate ==
    /\ started
    /\ config.database_url
    /\ ~config.auto_migrate
    /\ sched.pc = "off"
    /\ \E i \in DOMAIN trainers :
          trainers[i].sync_enabled /\ trainers[i].last_synced_at = NoTime

\* C18: no locking is needed: when a scheduled sync and a request-driven
\* sync of the same trainer interleave at their await points, each with its
\* own database session, the outcome is still at most one session per
\* calendar event id and at most one reminder sent per session.
C18_NoLockingNeeded ==
    /\ UniqueEventIds(sessions)
    /\ \A id \in EventIds : sent[id] <= 1

\* Both runs have committed, and each of them posted the reminder of the
\* one session of e1.
C18_BothRunsReminded ==
    /\ \A r \in RunNames : runs[r].pc = "done" /\ runs[r].status = "ok"
    /\ \E id \in EventIds :
          /\ sent[id] = 2
          /\ Cardinality(RowsOf(sessions, id)) = 1

\* The stored sessions whose client is a client of another trainer than the
\* session's own.
ForeignClientRows(rows) ==
    {i \in DOMAIN rows :
        /\ rows[i].client_id # NoId
        /\ clients[rows[i].client_id].trainer_id # rows[i].trainer_id}

\* C21: in every reachable state a TrainingSession whose client is set
\* refers to a client that belongs to the session's own trainer, after any
\* sequence of syncs by different trainers, also when two trainers'
\* calendars hold an event with the same event id.
C21_ClientOfOwnTrainer == ForeignClientRows(sessions) = {}

\* A trainer's run has just committed; it fetched an event id whose session
\* another trainer's run had created, and left that session, still the other
\* trainer's, with a client of its own.
C21_ClientOfSecondTrainer ==
    /\ last.op \in SyncOps
    /\ last.status = "ok"
    /\ \E i \in ForeignClientRows(sessions) :
          /\ sessions[i].trainer_id # last.trainer
          /\ clients[sessions[i].client_id].trainer_id = last.trainer
          /\ Occurrences(last.events, sessions[i].calendar_event_id) # {}

\* The times of the ticks that may follow a tick.
LaterTicks == {t \in T0..(T0 + MaxTime + SchedulerSleepMinutes) : t > sched.now}

\* What a step does to last_synced_at: a trainer's value changes only in a
\* scheduled or `/sync` run of that trainer that succeeded, and becomes the
\* run's time; a run that failed, `/sync <n>`, `/sync off` and
\* POST /calendar/sync leave every trainer's value as it was; and a trainer
\* whose scheduled run failed is due at every later tick.
C22_LastSyncedStep ==
    /\ DOMAIN trainers \subseteq DOMAIN trainers'
    /\ \A i \in DOMAIN trainers :
          trainers'[i].last_synced_at # trainers[i].last_synced_at =>
             /\ last'.op \in {"scheduler_sync", "sync_now"}
             /\ last'.status = "ok"
             /\ last'.trainer = i
             /\ trainers'[i].last_synced_at = RunTime
    /\ (\/ SyncAborted
        \/ last'.op \in {"sync_interval", "sync_off", "sync_overflow", "calendar_sync"}) =>
          \A i \in DOMAIN trainers :
             trainers'[i].last_synced_at = trainers[i].last_synced_at
    /\ (last'.op = "scheduler_sync" /\ last'.status # "ok") =>
          /\ trainers' = trainers
          /\ \A t \in LaterTicks : IsDue(trainers'[last'.trainer], t)

\* C22: a trainer's last_synced_at changes only when a sync of that trainer
\* started by the scheduler or by the `/sync` command completed
\* successfully: a failed sync leaves it unchanged (so the scheduler retries
\* that trainer at every following tick), and `/sync <n>`, `/sync off` and
\* POST /calendar/sync/{trainer_id} never change it.
C22_LastSyncedOnlyOnSuccess == [][C22_LastSyncedStep]_vars

\* A trainer that was synced earlier has just had its scheduled run fail:
\* last_synced_at is still the earlier run's time and the trainer is due.
C22_FailedRunKeepsLastSynced ==
    /\ last.op = "scheduler_sync"
    /\ last.status # "ok"
    /\ sched.pc = "loop"
    /\ trainers[last.trainer].last_synced_at # NoTime
    /\ trainers[last.trainer].last_synced_at < sched.now
    /\ IsDue(trainers[last.trainer], sched.now)

=============================================================================
